---- MODULE Spec2Model ----
(***************************************************************************)
(* A model of blocks/extensions.py: the training-extension callbacks       *)
(* (TrainingExtension), the condition-dispatch table (SimpleExtension) and *)
(* the two extensions built on it, FinishAfter and Printing, next to a     *)
(* subclass of SimpleExtension that leaves the abstract method do out.     *)
(*                                                                         *)
(* Python optional values are sequences of length at most one: <<>> is     *)
(* None (or an absent keyword) and <<v>> is the value v.                   *)
(***************************************************************************)
EXTENDS Naturals, Sequences, FiniteSets, TLC

\* ------------------------------------------------------------- bounds
\* log.status.epochs_done and log.status.iterations_done range over 0..MaxCount
MaxCount == 2
\* at most MaxSetup configuration steps per extension: keywords given to the
\* constructor plus later add_condition calls
MaxSetup == 2

\* ------------------------------------------------------------- names
\* the callbacks of TrainingExtension (src lines 34-74)
LifecycleNames ==
    {"before_training", "before_epoch", "before_batch", "after_batch",
     "after_epoch", "after_training", "on_interrupt"}

\* names a caller may pass: the seven callbacks and one that is no attribute
CallbackNames == LifecycleNames \cup {"not_a_callback"}

\* the positional parameters each callback takes besides self
Arity(name) == IF name \in {"before_batch", "after_batch"} THEN 1 ELSE 0

\* what the main loop passes to dispatch after the name: the current batch
\* for the two batch callbacks, nothing for the others
MainLoopArgs(name) == IF Arity(name) = 1 THEN <<"batch">> ELSE <<>>

\* ------------------------------------------------------------- the log
Counters == 0..MaxCount

Logs ==
    [status : [epochs_done : Counters, iterations_done : Counters],
     current_row : [training_finish_requested : BOOLEAN]]

NewLog ==
    [status |-> [epochs_done |-> 0, iterations_done |-> 0],
     current_row |-> [training_finish_requested |-> FALSE]]

\* ------------------------------------------------------------- predicates
\* lambda log: True (src line 153)
AlwaysTrue == [kind |-> "always", n |-> 0]
\* an epochs predicate that reads the other counter
EpochsDoneEq_reads_iterations(n) == [kind |-> "iterations_done_eq", n |-> n]
\* an iterations predicate that reads the other counter
IterationsDoneEq_reads_epochs(n) == [kind |-> "epochs_done_eq", n |-> n]

\* lambda log: log.status.epochs_done == n (src lines 114, 124-125)
EpochsDoneEq(n) == [kind |-> "epochs_done_eq", n |-> n]
\* lambda log: log.status.iterations_done == n (src lines 129-130)
IterationsDoneEq(n) == [kind |-> "iterations_done_eq", n |-> n]
\* predicates a user passes to add_condition: one that reads the current row,
\* one that raises
FinishRequested == [kind |-> "finish_requested", n |-> 0]
Raising == [kind |-> "raises", n |-> 0]

\* predicate(log) raises
PredicateRaises(p, lg) == p.kind = "raises"

\* counter predicates that test a threshold instead of equality
PredicateHolds_at_least(p, lg) ==
    CASE p.kind = "always" -> TRUE
      [] p.kind = "epochs_done_eq" -> lg.status.epochs_done >= p.n
      [] p.kind = "iterations_done_eq" -> lg.status.iterations_done >= p.n
      [] p.kind = "finish_requested" -> lg.current_row.training_finish_requested
      [] OTHER -> FALSE

\* predicate(log) returns a true value
PredicateHolds(p, lg) ==
    CASE p.kind = "always" -> TRUE
      [] p.kind = "epochs_done_eq" -> lg.status.epochs_done = p.n
      [] p.kind = "iterations_done_eq" -> lg.status.iterations_done = p.n
      [] p.kind = "finish_requested" -> lg.current_row.training_finish_requested
      [] OTHER -> FALSE

\* ------------------------------------------------------------- add_condition
\* Python truthiness of an optional integer: None and 0 are false
TruthyInt(opt) == opt # <<>> /\ opt[1] # 0

\* Python truthiness of an optional list: None and [] are false
TruthyList(opt) == opt # <<>> /\ opt[1] # <<>>

\* an add_condition whose default predicate is never true
add_condition_default_false(conds, callback_name, predicate, arguments) ==
    LET args == IF ~TruthyList(arguments) THEN <<>> ELSE arguments[1]
        pred == IF predicate = <<>> THEN [kind |-> "never", n |-> 0]
                ELSE predicate[1]
    IN  Append(conds, [callback_name |-> callback_name,
                       predicate |-> pred,
                       arguments |-> args])

\* an add_condition that replaces every predicate by the default
add_condition_drops_predicate(conds, callback_name, predicate, arguments) ==
    LET args == IF ~TruthyList(arguments) THEN <<>> ELSE arguments[1]
    IN  Append(conds, [callback_name |-> callback_name,
                       predicate |-> AlwaysTrue,
                       arguments |-> args])

\* an add_condition that puts the new condition first
add_condition_prepends(conds, callback_name, predicate, arguments) ==
    LET args == IF ~TruthyList(arguments) THEN <<>> ELSE arguments[1]
        pred == IF predicate = <<>> THEN AlwaysTrue ELSE predicate[1]
    IN  <<[callback_name |-> callback_name,
           predicate |-> pred,
           arguments |-> args]>> \o conds

\* SimpleExtension.add_condition: the condition list after the call
add_condition(conds, callback_name, predicate, arguments) ==
    LET args == IF ~TruthyList(arguments) THEN <<>> ELSE arguments[1]
        pred == IF predicate = <<>> THEN AlwaysTrue ELSE predicate[1]
    IN  Append(conds, [callback_name |-> callback_name,
                       predicate |-> pred,
                       arguments |-> args])

\* ------------------------------------------------------------- __init__
\* a keyword flag's value: False when the keyword is absent
FlagValue(opt) == IF opt = <<>> THEN FALSE ELSE opt[1]

\* SimpleExtension.__init__: the condition list it builds
SimpleExtension_init(kw) ==
    LET c0 == <<>>
        c1 == IF FlagValue(kw.before_first_epoch)
              THEN add_condition(c0, "before_epoch", <<EpochsDoneEq(0)>>, <<>>)
              ELSE c0
        c2 == IF FlagValue(kw.after_every_epoch)
              THEN add_condition(c1, "after_epoch", <<>>, <<>>)
              ELSE c1
        c3 == IF FlagValue(kw.after_every_batch)
              THEN add_condition(c2, "after_batch", <<>>, <<>>)
              ELSE c2
        c4 == IF FlagValue(kw.after_training)
              THEN add_condition(c3, "after_training", <<>>, <<>>)
              ELSE c3
        c5 == IF TruthyInt(kw.after_n_epochs)
              THEN add_condition(c4, "after_epoch",
                                 <<EpochsDoneEq(kw.after_n_epochs[1])>>, <<>>)
              ELSE c4
        c6 == IF TruthyInt(kw.after_n_batches)
              THEN add_condition(c5, "after_batch",
                                 <<IterationsDoneEq(kw.after_n_batches[1])>>, <<>>)
              ELSE c5
    IN  c6

\* ------------------------------------------------------------- do
\* the classes of extension: TrainingExtension itself, the two concrete
\* subclasses of SimpleExtension, and a subclass of SimpleExtension that
\* defines no do (class SubclassWithoutDo(SimpleExtension): pass)
SimpleClasses == {"FinishAfter", "Printing"}
Classes == {"TrainingExtension", "SubclassWithoutDo"} \cup SimpleClasses

\* the abstract methods of a class: SimpleExtension declares do abstract,
\* FinishAfter and Printing override it, TrainingExtension has none
AbstractMethods(c) == IF c = "SubclassWithoutDo" THEN {"do"} ELSE {}

\* a class call that does not look at the abstract methods
Instantiate_unchecked(c) == "none"

\* calling a class whose metaclass is ABCMeta: the exception raised, "none"
\* if an instance is made
Instantiate(c) == IF AbstractMethods(c) # {} THEN "TypeError" ELSE "none"

\* a FinishAfter.do that sets nothing
FinishAfter_do_forgets(lg, which_callback, args) == lg

\* a FinishAfter.do that flips the flag
FinishAfter_do_toggles(lg, which_callback, args) ==
    [lg EXCEPT !.current_row.training_finish_requested = ~@]

\* FinishAfter.do: the log after the call
FinishAfter_do(lg, which_callback, args) ==
    [lg EXCEPT !.current_row.training_finish_requested = TRUE]

\* str(value) of a counter and of a flag
StrInt(n) == ToString(n)
StrBool(b) == IF b THEN "True" ELSE "False"

Rule == "-------------------------------------------------------------------------------"

\* Printing._print_attributes: one line per attribute whose name does not
\* start with an underscore
print_attributes(attribute_tuples) ==
    [i \in 1..Len(attribute_tuples) |->
        <<"\t", attribute_tuples[i][1] \o ":", attribute_tuples[i][2]>>]

\* Printing.do: the lines it prints
Printing_do(lg, which_callback, args) ==
    <<  <<Rule>> >>
    \o (IF which_callback = "before_epoch" /\ lg.status.epochs_done = 0
        THEN << <<"BEFORE FIRST EPOCH">> >>
        ELSE IF which_callback = "after_training"
        THEN << <<"TRAINING HAS BEEN FINISHED:">> >>
        ELSE IF which_callback = "after_epoch"
        THEN << <<"AFTER ANOTHER EPOCH">> >>
        ELSE <<>>)
    \o << <<Rule>>, <<"Training status:">> >>
    \o print_attributes(<< <<"epochs_done", StrInt(lg.status.epochs_done)>>,
                           <<"iterations_done", StrInt(lg.status.iterations_done)>> >>)
    \o << <<"Log records from the iteration "
             \o StrInt(lg.status.iterations_done) \o ":">> >>
    \o print_attributes(<< <<"training_finish_requested",
                             StrBool(lg.current_row.training_finish_requested)>> >>)

\* do of class c: the log after the call
do(c, lg, which_callback, args) ==
    IF c = "FinishAfter" THEN FinishAfter_do(lg, which_callback, args) ELSE lg

\* do of class c: the lines it prints
do_prints(c, lg, which_callback, args) ==
    IF c = "Printing" THEN Printing_do(lg, which_callback, args) ELSE <<>>

\* ------------------------------------------------------------- dispatch
\* what one dispatch did: the log it leaves, the methods it invoked in order
\* (cond: the position of the condition that caused the call, 0 if none) and
\* the exception that left it
Outcome(lg, calls, raised, out) ==
    [log |-> lg, calls |-> calls, raised |-> raised, out |-> out]

\* a condition test that leaves the predicate out
ConditionMatches_name_only(cond, callback_invoked, lg) ==
    cond.callback_name = callback_invoked

\* a condition test that leaves the name out
ConditionMatches_predicate_only(cond, callback_invoked, lg) ==
    PredicateHolds(cond.predicate, lg)

\* the condition test of SimpleExtension.dispatch (src lines 184-185); `and`
\* evaluates the predicate only when the names are equal
ConditionMatches(cond, callback_invoked, lg) ==
    /\ cond.callback_name = callback_invoked
    /\ PredicateHolds(cond.predicate, lg)

\* a condition test in which a predicate's exception is swallowed
ConditionRaises_never(cond, callback_invoked, lg) == FALSE

\* the condition test ends in an exception: the names are equal and the
\* predicate raises
ConditionRaises(cond, callback_invoked, lg) ==
    /\ cond.callback_name = callback_invoked
    /\ PredicateRaises(cond.predicate, lg)

\* a call of do that passes the condition's arguments before the main loop's
DoCall_extras_first(i, cond, callback_invoked, from_main_loop) ==
    [method |-> "do",
     args |-> <<callback_invoked>> \o cond.arguments \o from_main_loop,
     cond |-> i]

\* the call of do at src line 186
DoCall(i, cond, callback_invoked, from_main_loop) ==
    [method |-> "do",
     args |-> <<callback_invoked>> \o from_main_loop \o cond.arguments,
     cond |-> i]

\* a for loop that ends after the first call of do
RECURSIVE DispatchLoop_stops_after_first(_, _, _, _, _, _)
DispatchLoop_stops_after_first(c, conds, i, callback_invoked, from_main_loop, st) ==
    IF i > Len(conds) THEN st
    ELSE IF ConditionRaises(conds[i], callback_invoked, st.log)
    THEN [st EXCEPT !.raised = "Exception"]
    ELSE IF ConditionMatches(conds[i], callback_invoked, st.log)
    THEN LET call == DoCall(i, conds[i], callback_invoked, from_main_loop)
         IN  Outcome(do(c, st.log, call.args[1], Tail(call.args)),
                     Append(st.calls, call), st.raised,
                     st.out \o do_prints(c, st.log, call.args[1], Tail(call.args)))
    ELSE DispatchLoop_stops_after_first(c, conds, i + 1, callback_invoked,
                                        from_main_loop, st)

\* the for loop of SimpleExtension.dispatch from position i on
RECURSIVE DispatchLoop(_, _, _, _, _, _)
DispatchLoop(c, conds, i, callback_invoked, from_main_loop, st) ==
    IF i > Len(conds) THEN st
    ELSE IF ConditionRaises(conds[i], callback_invoked, st.log)
    THEN [st EXCEPT !.raised = "Exception"]
    ELSE IF ConditionMatches(conds[i], callback_invoked, st.log)
    THEN LET call == DoCall(i, conds[i], callback_invoked, from_main_loop)
         IN  DispatchLoop(c, conds, i + 1, callback_invoked, from_main_loop,
                          Outcome(do(c, st.log, call.args[1], Tail(call.args)),
                                  Append(st.calls, call), st.raised,
                                  st.out \o do_prints(c, st.log, call.args[1],
                                                      Tail(call.args))))
    ELSE DispatchLoop(c, conds, i + 1, callback_invoked, from_main_loop, st)

\* a for loop that evaluates every predicate on the log as it was when
\* dispatch was called
RECURSIVE DispatchLoop_on_snapshot(_, _, _, _, _, _, _)
DispatchLoop_on_snapshot(c, conds, i, callback_invoked, from_main_loop, st, snapshot) ==
    IF i > Len(conds) THEN st
    ELSE IF ConditionRaises(conds[i], callback_invoked, snapshot)
    THEN [st EXCEPT !.raised = "Exception"]
    ELSE IF ConditionMatches(conds[i], callback_invoked, snapshot)
    THEN LET call == DoCall(i, conds[i], callback_invoked, from_main_loop)
         IN  DispatchLoop_on_snapshot(
                 c, conds, i + 1, callback_invoked, from_main_loop,
                 Outcome(do(c, st.log, call.args[1], Tail(call.args)),
                         Append(st.calls, call), st.raised,
                         st.out \o do_prints(c, st.log, call.args[1],
                                             Tail(call.args))),
                 snapshot)
    ELSE DispatchLoop_on_snapshot(c, conds, i + 1, callback_invoked,
                                  from_main_loop, st, snapshot)

SimpleExtension_dispatch_on_snapshot(c, conds, lg, callback_invoked, from_main_loop) ==
    DispatchLoop_on_snapshot(c, conds, 1, callback_invoked, from_main_loop,
                             Outcome(lg, <<>>, "none", <<>>), lg)

\* SimpleExtension.dispatch: the loop over all the conditions, on the log of
\* the main loop
SimpleExtension_dispatch(c, conds, lg, callback_invoked, from_main_loop) ==
    DispatchLoop(c, conds, 1, callback_invoked, from_main_loop,
                 Outcome(lg, <<>>, "none", <<>>))

\* a TrainingExtension.dispatch that calls the callback without the arguments
TrainingExtension_dispatch_drops_args(lg, callback_name, args) ==
    IF callback_name \notin LifecycleNames
    THEN Outcome(lg, <<>>, "AttributeError", <<>>)
    ELSE Outcome(lg,
                 <<[method |-> callback_name, args |-> <<>>, cond |-> 0]>>,
                 IF Arity(callback_name) = 0 THEN "none" ELSE "TypeError",
                 <<>>)

\* TrainingExtension.dispatch: getattr(self, callback_name)(*args); the
\* callbacks are `pass`
TrainingExtension_dispatch(lg, callback_name, args) ==
    IF callback_name \notin LifecycleNames
    THEN Outcome(lg, <<>>, "AttributeError", <<>>)
    ELSE Outcome(lg,
                 <<[method |-> callback_name, args |-> args, cond |-> 0]>>,
                 IF Len(args) = Arity(callback_name) THEN "none" ELSE "TypeError",
                 <<>>)

\* a dispatch that is the base one for every class
dispatch_always_base(c, conds, lg, callback_name, args) ==
    TrainingExtension_dispatch(lg, callback_name, args)

\* dispatch of an extension of class c
dispatch(c, conds, lg, callback_name, args) ==
    IF c = "TrainingExtension"
    THEN TrainingExtension_dispatch(lg, callback_name, args)
    ELSE SimpleExtension_dispatch(c, conds, lg, callback_name, args)

\* ------------------------------------------------------------- constructors
\* FinishAfter.__init__: passes its keywords on
FinishAfter_init(kw) == SimpleExtension_init(kw)

\* a set_if_absent that overwrites a keyword the caller passed
set_if_absent_overwrites(opt) == <<TRUE>>

\* set_if_absent of Printing.__init__
set_if_absent(opt) == IF opt = <<>> THEN <<TRUE>> ELSE opt

\* Printing.__init__: three keywords default to True
Printing_init(kw) ==
    SimpleExtension_init(
        [kw EXCEPT !.before_first_epoch = set_if_absent(@),
                   !.after_training = set_if_absent(@),
                   !.after_every_epoch = set_if_absent(@)])

\* the condition list of a new extension of class c
Construct(c, kw) ==
    CASE Instantiate(c) # "none" -> <<>>
      [] c = "FinishAfter" -> FinishAfter_init(kw)
      [] c = "Printing" -> Printing_init(kw)
      [] c = "SubclassWithoutDo" -> SimpleExtension_init(kw)
      [] OTHER -> <<>>

\* ------------------------------------------------------------- inputs
\* the values of a keyword flag: absent, True and, for Printing (the one
\* class where it differs from an absent keyword), an explicit False
Flags(c) == {<<>>, <<TRUE>>} \cup (IF c = "Printing" THEN {<<FALSE>>} ELSE {})
\* the values of after_n_epochs and after_n_batches: absent, or a number
NValues == {0, 1, 2}
Counts == {<<>>} \cup {<<n>> : n \in NValues}

AllKwargs(c) ==
    [before_first_epoch : Flags(c), after_every_epoch : Flags(c),
     after_every_batch : Flags(c), after_training : Flags(c),
     after_n_epochs : Counts, after_n_batches : Counts]

NoKwargs ==
    [before_first_epoch |-> <<>>, after_every_epoch |-> <<>>,
     after_every_batch |-> <<>>, after_training |-> <<>>,
     after_n_epochs |-> <<>>, after_n_batches |-> <<>>]

Given(opt) == IF opt = <<>> THEN 0 ELSE 1

\* the number of keywords given to the constructor
NGiven(kw) ==
    Given(kw.before_first_epoch) + Given(kw.after_every_epoch)
    + Given(kw.after_every_batch) + Given(kw.after_training)
    + Given(kw.after_n_epochs) + Given(kw.after_n_batches)

CtorKwargs(c) ==
    IF c = "TrainingExtension" THEN {NoKwargs}
    ELSE {kw \in AllKwargs(c) : NGiven(kw) <= MaxSetup}

\* the add_condition calls a user makes: <<callback_name, predicate, arguments>>
UserConditions ==
    { <<"after_epoch", <<FinishRequested>>, << <<"extra">> >> >>,
      <<"after_epoch", <<Raising>>, <<>> >>,
      <<"after_batch", <<>>, << <<"x", "y">> >> >>,
      <<"not_a_callback", <<>>, <<>> >> }

\* ------------------------------------------------------------- state
VARIABLES
    cls,         \* the extension's class
    ctor_raised, \* the exception the call of the class raised, "none" if it
                 \* returned an instance
    kwargs,      \* the keywords its constructor was given
    conditions,  \* self._conditions
    user,        \* the add_condition calls made after construction, in order
    log,         \* self.main_loop.log
    last,        \* the latest call of dispatch and what it did
    pc,          \* where the main loop's training run stands
    dispatched,  \* per callback name, the dispatches the training run made
    fired,       \* per condition, the calls of do it caused in the training run
    marks        \* the counter values at which after_batch and after_epoch
                 \* were dispatched in the training run

vars ==
    <<cls, ctor_raised, kwargs, conditions, user, log, last, pc, dispatched,
      fired, marks>>

ext == <<cls, ctor_raised, kwargs, conditions, user>>
run == <<pc, dispatched, fired, marks>>

NoCall ==
    [op |-> "none", name |-> "", args |-> <<>>, pre |-> NewLog,
     calls |-> <<>>, raised |-> "none", out |-> <<>>]

\* the record of a call of dispatch
Called(name, args, pre, res) ==
    [op |-> "dispatch", name |-> name, args |-> args, pre |-> pre,
     calls |-> res.calls, raised |-> res.raised, out |-> res.out]

Init ==
    /\ cls \in Classes
    /\ kwargs \in CtorKwargs(cls)
    /\ ctor_raised = Instantiate(cls)
    /\ conditions = Construct(cls, kwargs)
    /\ user = <<>>
    /\ log = NewLog
    /\ last = NoCall
    /\ pc = "config"
    /\ dispatched = [name \in LifecycleNames |-> 0]
    /\ fired = [i \in 1..Len(conditions) |-> 0]
    /\ marks = [after_batch |-> {}, after_epoch |-> {}]

\* a call of add_condition after construction, before the training run
AddCondition ==
    /\ cls \in SimpleClasses
    /\ ctor_raised = "none"
    /\ pc = "config"
    /\ last = NoCall
    /\ NGiven(kwargs) + Len(user) < MaxSetup
    /\ \E u \in UserConditions :
        /\ conditions' = add_condition(conditions, u[1], u[2], u[3])
        /\ user' = Append(user, u)
    /\ fired' = Append(fired, 0)
    /\ last' = NoCall
    /\ UNCHANGED <<cls, ctor_raised, kwargs, log, pc, dispatched, marks>>

\* ----------------------------------------------- the extension called directly
\* The caller is sequential: it looks at what a call of dispatch did (`last`)
\* and then goes on, to change the log, to add a condition or to call
\* dispatch again.
Resume ==
    /\ last # NoCall
    /\ last' = NoCall
    /\ UNCHANGED <<ext, log, run>>

\* a test (or a main loop between two calls) changes the log
SetEpochsDone ==
    /\ last = NoCall
    /\ log.status.epochs_done < MaxCount
    /\ log' = [log EXCEPT !.status.epochs_done = @ + 1]
    /\ last' = NoCall
    /\ UNCHANGED <<ext, run>>

SetIterationsDone ==
    /\ last = NoCall
    /\ log.status.iterations_done < MaxCount
    /\ log' = [log EXCEPT !.status.iterations_done = @ + 1]
    /\ last' = NoCall
    /\ UNCHANGED <<ext, run>>

SetFinishRequested ==
    /\ last = NoCall
    /\ log' = [log EXCEPT !.current_row.training_finish_requested = ~@]
    /\ last' = NoCall
    /\ UNCHANGED <<ext, run>>

\* a call of dispatch with any name, on an extension that exists
Dispatch ==
    \E name \in CallbackNames :
        LET args == MainLoopArgs(name)
            res == dispatch(cls, conditions, log, name, args)
        IN  /\ ctor_raised = "none"
            /\ last = NoCall
            /\ log' = res.log
            /\ last' = Called(name, args, log, res)
            /\ UNCHANGED <<ext, run>>

Next ==
    \/ Resume
    \/ SetEpochsDone
    \/ SetIterationsDone
    \/ SetFinishRequested
    \/ AddCondition
    \/ Dispatch

Spec == Init /\ [][Next]_vars

\* ----------------------------------------------- the extension in a training run
\* The main loop dispatches the callbacks at the stages of a run: before
\* training, before each epoch, before and after each batch, after each epoch,
\* after training, on an interrupt.  It counts a batch (an epoch) as done
\* before it dispatches after_batch (after_epoch); a counter may advance by
\* more than one between two dispatches.  It reads the finish flag after
\* after_batch and after_epoch, and an exception out of dispatch ends the run.
Steps == {1, 2}

\* the counts of do per condition after a dispatch
Count(calls, i) == Cardinality({k \in 1..Len(calls) : calls[k].cond = i})

\* the main loop dispatches callback `name` on the log lg and goes on at `to`
RunDispatch(name, lg, to) ==
    LET args == MainLoopArgs(name)
        res == dispatch(cls, conditions, lg, name, args)
    IN  /\ ctor_raised = "none"
        /\ log' = res.log
        /\ last' = Called(name, args, lg, res)
        /\ dispatched' = [dispatched EXCEPT ![name] = @ + 1]
        /\ fired' = [i \in 1..Len(fired) |-> fired[i] + Count(res.calls, i)]
        /\ marks' = IF name = "after_batch"
                     THEN [marks EXCEPT !.after_batch =
                               @ \cup {lg.status.iterations_done}]
                     ELSE IF name = "after_epoch"
                     THEN [marks EXCEPT !.after_epoch =
                               @ \cup {lg.status.epochs_done}]
                     ELSE marks
        /\ pc' = IF res.raised # "none" THEN "crashed"
                 ELSE IF to \in {"in_epoch", "between_epochs"}
                         /\ name \in {"after_batch", "after_epoch"}
                         /\ res.log.current_row.training_finish_requested
                 THEN "finishing"
                 ELSE to
        /\ UNCHANGED ext

RunBeforeTraining ==
    /\ pc = "config"
    /\ RunDispatch("before_training", log, "between_epochs")

RunBeforeEpoch ==
    /\ pc = "between_epochs"
    /\ log.status.epochs_done < MaxCount
    /\ RunDispatch("before_epoch", log, "in_epoch")

RunBeforeBatch ==
    /\ pc = "in_epoch"
    /\ log.status.iterations_done < MaxCount
    /\ RunDispatch("before_batch", log, "in_batch")

RunAfterBatch ==
    /\ pc = "in_batch"
    /\ \E d \in Steps :
        /\ log.status.iterations_done + d <= MaxCount
        /\ RunDispatch("after_batch",
                       [log EXCEPT !.status.iterations_done = @ + d], "in_epoch")

RunAfterEpoch ==
    /\ pc = "in_epoch"
    /\ \E d \in Steps :
        /\ log.status.epochs_done + d <= MaxCount
        /\ RunDispatch("after_epoch",
                       [log EXCEPT !.status.epochs_done = @ + d], "between_epochs")

RunAfterTraining ==
    /\ pc \in {"between_epochs", "finishing"}
    /\ RunDispatch("after_training", log, "done")

RunInterrupt ==
    /\ pc \in {"between_epochs", "in_epoch", "in_batch"}
    /\ RunDispatch("on_interrupt", log, "interrupted")

NextRun ==
    \/ AddCondition
    \/ RunBeforeTraining
    \/ RunBeforeEpoch
    \/ RunBeforeBatch
    \/ RunAfterBatch
    \/ RunAfterEpoch
    \/ RunAfterTraining
    \/ RunInterrupt

SpecRun == Init /\ [][NextRun]_vars

\* ------------------------------------------------------------- properties
IsSimple == cls \in SimpleClasses
Dispatched == last.op = "dispatch"
Returned == Dispatched /\ last.raised = "none"

\* condition i caused a call of do in the latest dispatch
FiredAt(i) == \E k \in 1..Len(last.calls) : last.calls[k].cond = i

\* the number of calls of do condition i caused in the latest dispatch
FiredCount(i) == Count(last.calls, i)

\* the log as the predicate of condition i found it in the latest dispatch:
\* the log the dispatch started on, changed by the calls of do made for the
\* conditions before i (FinishAfter's sets the finish flag)
SeenLog(i) ==
    IF cls = "FinishAfter" /\ \E j \in 1..(i - 1) : FiredAt(j)
    THEN [last.pre EXCEPT !.current_row.training_finish_requested = TRUE]
    ELSE last.pre

\* a condition with this name raises in the latest dispatch
SomePredicateRaises ==
    \E i \in 1..Len(conditions) :
        /\ conditions[i].callback_name = last.name
        /\ conditions[i].predicate = Raising

\* C1: in every dispatch of a SimpleExtension that returns, do is invoked
\* exactly once for each condition whose stored name equals the dispatched
\* name and whose predicate is true on the log when it is evaluated, for no
\* other condition, and in the order of registration.
C1_DoOncePerMatchInOrder ==
    (IsSimple /\ Returned) =>
        /\ \A k \in 1..Len(last.calls) : last.calls[k].method = "do"
        /\ \A k1, k2 \in 1..Len(last.calls) :
               k1 < k2 => last.calls[k1].cond < last.calls[k2].cond
        /\ \A i \in 1..Len(conditions) :
               FiredAt(i) <=>
                   (/\ conditions[i].callback_name = last.name
                    /\ PredicateHolds(conditions[i].predicate, SeenLog(i)))

\* C1 witness: a dispatch that invoked do for two conditions and skipped one
\* with the dispatched name (its predicate false) and one with another name
C1_Witness ==
    /\ IsSimple /\ Returned
    /\ Len(last.calls) = 2
    /\ \E i, j \in 1..Len(conditions) :
        /\ i < last.calls[2].cond
        /\ conditions[i].callback_name = last.name /\ ~FiredAt(i)
        /\ conditions[j].callback_name # last.name

\* ---- the extension as its constructor built it
B(b) == IF b THEN 1 ELSE 0

\* keyword flag f is in effect: given as True, or left to Printing's default
EffFlag(f) ==
    \/ kwargs[f] = <<TRUE>>
    \/ /\ cls = "Printing"
       /\ f \in {"before_first_epoch", "after_training", "after_every_epoch"}
       /\ kwargs[f] = <<>>

\* the callback a keyword stands for
FlagCallback(f) ==
    CASE f = "before_first_epoch" -> "before_epoch"
      [] f \in {"after_every_epoch", "after_n_epochs"} -> "after_epoch"
      [] f \in {"after_every_batch", "after_n_batches"} -> "after_batch"
      [] OTHER -> "after_training"

\* the position at which the constructor registers the condition of a keyword
FlagPos(f) ==
    CASE f = "before_first_epoch" -> 1
      [] f = "after_every_epoch" -> B(EffFlag("before_first_epoch")) + 1
      [] f = "after_every_batch" ->
            B(EffFlag("before_first_epoch")) + B(EffFlag("after_every_epoch")) + 1
      [] f = "after_training" ->
            B(EffFlag("before_first_epoch")) + B(EffFlag("after_every_epoch"))
            + B(EffFlag("after_every_batch")) + 1
      [] f = "after_n_epochs" ->
            B(EffFlag("before_first_epoch")) + B(EffFlag("after_every_epoch"))
            + B(EffFlag("after_every_batch")) + B(EffFlag("after_training")) + 1
      [] OTHER ->
            B(EffFlag("before_first_epoch")) + B(EffFlag("after_every_epoch"))
            + B(EffFlag("after_every_batch")) + B(EffFlag("after_training"))
            + B(kwargs.after_n_epochs \notin {<<>>, <<0>>}) + 1

\* the position of the condition of the j-th add_condition call of the user
UserPos(j) == Len(conditions) - Len(user) + j

\* the dispatches of `name` the training run made
DispatchedCount(name) == IF name \in LifecycleNames THEN dispatched[name] ELSE 0

\* a condition before i, of the same name, has a predicate that raises: no
\* dispatch of that name gets as far as condition i
Blocked(i) ==
    \E j \in 1..(i - 1) :
        /\ conditions[j].callback_name = conditions[i].callback_name
        /\ conditions[j].predicate = Raising

\* the extension has one condition, the one keyword f registers
OnlyKeyword(f) ==
    /\ IsSimple
    /\ user = <<>>
    /\ Len(conditions) = 1
    /\ IF f \in {"after_n_epochs", "after_n_batches"}
       THEN kwargs[f] \notin {<<>>, <<0>>}
       ELSE EffFlag(f)

\* C2: in a training run, a condition registered with no predicate (by a
\* constructor flag or by add_condition(name)) has caused exactly as many
\* calls of do as its callback name was dispatched, whatever the log held at
\* those dispatches, each with which_callback equal to that name; dispatches
\* of other names add none.  (The one dispatch an earlier condition's raising
\* predicate cuts short does not reach it.)
C2_NoPredicateFiresOnEveryDispatch ==
    IsSimple =>
        /\ \A f \in {"after_every_epoch", "after_every_batch", "after_training"} :
               EffFlag(f) =>
                   /\ FlagPos(f) <= Len(conditions)
                   /\ conditions[FlagPos(f)].callback_name = FlagCallback(f)
                   /\ fired[FlagPos(f)] = dispatched[FlagCallback(f)]
        /\ \A j \in 1..Len(user) :
               user[j][2] = <<>> =>
                   /\ conditions[UserPos(j)].callback_name = user[j][1]
                   /\ fired[UserPos(j)] =
                          IF Blocked(UserPos(j)) THEN 0
                          ELSE DispatchedCount(user[j][1])
        /\ \A k \in 1..Len(last.calls) :
               /\ last.calls[k].args[1] = last.name
               /\ conditions[last.calls[k].cond].callback_name = last.name

\* C2 witness: after_every_epoch in effect, after_epoch dispatched twice (on
\* different logs) and do called twice for it, other names dispatched as well
C2_Witness ==
    /\ IsSimple
    /\ EffFlag("after_every_epoch")
    /\ dispatched["after_epoch"] = 2
    /\ fired[FlagPos("after_every_epoch")] = 2
    /\ dispatched["before_batch"] > 0

\* C3: in a training run, an extension whose one condition is that of
\* before_first_epoch=True has called do once as soon as before_epoch was
\* dispatched (then epochs_done was 0) and not before; no later dispatch
\* calls do again.
C3_BeforeFirstEpochOnce ==
    OnlyKeyword("before_first_epoch") =>
        /\ fired[1] = B(dispatched["before_epoch"] > 0)
        /\ (Dispatched /\ last.calls # <<>>) =>
               /\ last.name = "before_epoch"
               /\ last.pre.status.epochs_done = 0
               /\ Len(last.calls) = 1

\* C3 witness: before_epoch dispatched a second time, do called once in all
C3_Witness ==
    /\ OnlyKeyword("before_first_epoch")
    /\ dispatched["before_epoch"] = 2
    /\ last.name = "before_epoch"
    /\ last.pre.status.epochs_done > 0
    /\ fired[1] = 1

\* C4: in a training run, the condition of after_n_batches=N, N positive, has
\* caused one call of do if after_batch was dispatched with iterations_done = N
\* and none otherwise; an extension with no other condition calls do on that
\* dispatch only, and on no dispatch with another value of iterations_done.
C4_AfterNBatchesOnce ==
    (IsSimple /\ kwargs.after_n_batches \notin {<<>>, <<0>>}) =>
        LET N == kwargs.after_n_batches[1]
            i == FlagPos("after_n_batches")
        IN  /\ i <= Len(conditions)
            /\ fired[i] = B(N \in marks.after_batch)
            /\ Dispatched =>
                   FiredCount(i) =
                       B(/\ last.name = "after_batch"
                         /\ last.pre.status.iterations_done = N)
            /\ (OnlyKeyword("after_n_batches") /\ Dispatched) =>
                   Len(last.calls) = FiredCount(i)

\* C4 witness: an extension with after_n_batches=2 and no other condition,
\* after_batch dispatched at iterations_done 1 and 2, do called once
C4_Witness ==
    /\ OnlyKeyword("after_n_batches")
    /\ kwargs.after_n_batches = <<2>>
    /\ marks.after_batch = {1, 2}
    /\ last.name = "after_batch"
    /\ Len(last.calls) = 1
    /\ fired[1] = 1

\* C5: for an extension whose one condition is that of after_n_epochs=N, N
\* positive, a dispatch of after_epoch calls do (once) if and only if
\* epochs_done = N, and a dispatch of another name does not call it.
C5_AfterNEpochsIffEqual ==
    (OnlyKeyword("after_n_epochs") /\ Dispatched) =>
        /\ last.name = "after_epoch" =>
               /\ last.calls # <<>> <=>
                      last.pre.status.epochs_done = kwargs.after_n_epochs[1]
               /\ Len(last.calls) <= 1
        /\ last.name # "after_epoch" => last.calls = <<>>

\* C5 witness: after_n_epochs=2, dispatch("after_epoch") at epochs_done = 2
C5_Witness ==
    /\ OnlyKeyword("after_n_epochs")
    /\ Dispatched
    /\ kwargs.after_n_epochs = <<2>>
    /\ last.name = "after_epoch"
    /\ last.pre.status.epochs_done = 2
    /\ Len(last.calls) = 1

\* C6: for every value of after_n_epochs (after_n_batches) that is not None,
\* 0 included, a dispatch of after_epoch (after_batch) at which epochs_done
\* (iterations_done) equals that value calls do.
C6_DoAtEveryGivenCount ==
    (IsSimple /\ Returned) =>
        /\ (/\ kwargs.after_n_epochs # <<>>
            /\ last.name = "after_epoch"
            /\ last.pre.status.epochs_done = kwargs.after_n_epochs[1])
           => last.calls # <<>>
        /\ (/\ kwargs.after_n_batches # <<>>
            /\ last.name = "after_batch"
            /\ last.pre.status.iterations_done = kwargs.after_n_batches[1])
           => last.calls # <<>>

\* C7: every dispatch of a FinishAfter in which a condition is satisfied ends
\* with training_finish_requested True on the current row and the rest of
\* the log as it was; FinishAfter itself raises nothing (an exception out of
\* the dispatch comes from a predicate).
C7_FinishAfterSetsOnlyTheFlag ==
    (cls = "FinishAfter" /\ Dispatched) =>
        /\ last.calls # <<>> =>
               /\ log.current_row.training_finish_requested
               /\ log = [last.pre EXCEPT
                             !.current_row.training_finish_requested = TRUE]
        /\ last.raised # "none" => SomePredicateRaises
        /\ last.out = <<>>

\* C7 witness: FinishAfter(after_training=True), dispatch("after_training")
\* on a row whose flag was False
C7_Witness ==
    /\ cls = "FinishAfter" /\ Dispatched
    /\ kwargs.after_training = <<TRUE>>
    /\ last.name = "after_training"
    /\ ~last.pre.current_row.training_finish_requested
    /\ log.current_row.training_finish_requested
    /\ log.status.epochs_done > 0

\* C8: TrainingExtension.dispatch invokes, for each of the seven callback
\* names, exactly the method of that name, once, with the arguments it was
\* given; for a name that is no attribute it raises AttributeError and
\* invokes nothing.
C8_BaseDispatchCallsNamedMethod ==
    (cls = "TrainingExtension" /\ Dispatched) =>
        /\ last.name \in LifecycleNames =>
               /\ last.calls = <<[method |-> last.name, args |-> last.args,
                                  cond |-> 0]>>
               /\ last.raised = "none"
        /\ last.name \notin LifecycleNames =>
               /\ last.calls = <<>>
               /\ last.raised = "AttributeError"
        /\ log = last.pre

\* C8 witness: dispatch("after_batch", batch) called after_batch(batch)
C8_Witness ==
    /\ cls = "TrainingExtension" /\ Dispatched
    /\ last.name = "after_batch"
    /\ last.args = <<"batch">>
    /\ Len(last.calls) = 1

\* a condition under a name that is none of the seven callbacks
BadName(i) == conditions[i].callback_name \notin LifecycleNames

\* C9 as stated: a condition registered under a name that is none of the
\* seven callbacks never causes a call of do.
C9_BadNameNeverMatches ==
    (IsSimple /\ Dispatched) =>
        \A i \in 1..Len(conditions) : BadName(i) => ~FiredAt(i)

\* C9 as amended: add_condition stores any name as given; a condition under a
\* name that is none of the seven callbacks causes no call of do and no
\* exception in a dispatch of any of the seven callbacks (it matches only a
\* dispatch made with its own name).
C9_BadNameNeverMatchesCallbacks ==
    IsSimple =>
        /\ \A j \in 1..Len(user) :
               conditions[UserPos(j)].callback_name = user[j][1]
        /\ Dispatched =>
               /\ \A i \in 1..Len(conditions) :
                      BadName(i) => (FiredAt(i) <=> last.name =
                                         conditions[i].callback_name)
               /\ last.raised # "none" => SomePredicateRaises

\* C9 witness: a condition under "not_a_callback" is registered, and a
\* dispatch of a callback called do for another condition only
C9_Witness ==
    /\ IsSimple /\ Returned
    /\ last.name \in LifecycleNames
    /\ last.calls # <<>>
    /\ \E i \in 1..Len(conditions) : BadName(i) /\ ~FiredAt(i)

\* C10: in a training run, once iterations_done (epochs_done) is above N and
\* after_batch (after_epoch) was not dispatched while it was N, the condition
\* of after_n_batches=N (after_n_epochs=N) has caused no call of do, and no
\* dispatch at a counter above N causes one.
C10_ExactEqualityNotThreshold ==
    IsSimple =>
        /\ kwargs.after_n_batches \notin {<<>>, <<0>>} =>
               LET N == kwargs.after_n_batches[1]
                   i == FlagPos("after_n_batches")
               IN  /\ i <= Len(conditions)
                   /\ (log.status.iterations_done > N
                       /\ N \notin marks.after_batch) => fired[i] = 0
                   /\ (Dispatched /\ last.pre.status.iterations_done > N)
                          => ~FiredAt(i)
        /\ kwargs.after_n_epochs \notin {<<>>, <<0>>} =>
               LET N == kwargs.after_n_epochs[1]
                   i == FlagPos("after_n_epochs")
               IN  /\ i <= Len(conditions)
                   /\ (log.status.epochs_done > N
                       /\ N \notin marks.after_epoch) => fired[i] = 0
                   /\ (Dispatched /\ last.pre.status.epochs_done > N)
                          => ~FiredAt(i)

\* C10 witness: after_n_batches=1, iterations_done went from 0 to 2, and
\* after_batch was dispatched at 2 without a call of do
C10_Witness ==
    /\ IsSimple
    /\ kwargs.after_n_batches = <<1>>
    /\ marks.after_batch = {2}
    /\ last.name = "after_batch"
    /\ log.status.iterations_done = 2
    /\ fired[FlagPos("after_n_batches")] = 0

\* ---- several conditions in one dispatch
\* the conditions satisfied in the latest dispatch: the stored name equals the
\* dispatched name and the predicate is true on the log as it found it
Satisfied ==
    {i \in 1..Len(conditions) :
        /\ conditions[i].callback_name = last.name
        /\ PredicateHolds(conditions[i].predicate, SeenLog(i))}

\* C11: in a dispatch that returns, every satisfied condition causes its own
\* call of do, so do is called as many times as conditions are satisfied; two
\* equal entries of the condition list both cause a call; and an extension
\* with after_every_epoch=True and after_n_epochs=N calls do for the
\* always-true condition and next for the N condition in the one dispatch of
\* after_epoch at epochs_done = N (twice in all when it has no other condition).
C11_AllSatisfiedConditionsFire ==
    (IsSimple /\ Returned) =>
        /\ Len(last.calls) = Cardinality(Satisfied)
        /\ \A i \in 1..Len(conditions) : FiredCount(i) = B(i \in Satisfied)
        /\ \A i, j \in 1..Len(conditions) :
               (i < j /\ conditions[i] = conditions[j] /\ FiredAt(i)) => FiredAt(j)
        /\ (/\ EffFlag("after_every_epoch")
            /\ kwargs.after_n_epochs \notin {<<>>, <<0>>}
            /\ last.name = "after_epoch"
            /\ last.pre.status.epochs_done = kwargs.after_n_epochs[1])
           => /\ \E k \in 1..(Len(last.calls) - 1) :
                     /\ last.calls[k].cond = FlagPos("after_every_epoch")
                     /\ last.calls[k + 1].cond = FlagPos("after_n_epochs")
              /\ Len(conditions) = 2 => Len(last.calls) = 2

\* C11 witness: FinishAfter(after_every_epoch=True, after_n_epochs=2) called
\* do twice in the dispatch of after_epoch at epochs_done = 2
C11_Witness ==
    /\ cls = "FinishAfter" /\ Returned
    /\ kwargs.after_every_epoch = <<TRUE>>
    /\ kwargs.after_n_epochs = <<2>>
    /\ last.name = "after_epoch"
    /\ last.pre.status.epochs_done = 2
    /\ Len(last.calls) = 2
    /\ last.calls[1].cond = 1 /\ last.calls[2].cond = 2

\* ---- the arguments of do
\* the extra arguments condition i was registered with: none for a condition
\* of the constructor, the `arguments` of the add_condition call otherwise
RegisteredArguments(i) ==
    IF i <= Len(conditions) - Len(user) THEN <<>>
    ELSE LET u == user[i - (Len(conditions) - Len(user))]
         IN  IF u[3] = <<>> THEN <<>> ELSE u[3][1]

\* C12: every call of do made by a dispatch of a SimpleExtension has as its
\* arguments the dispatched name, then the arguments dispatch was given, in
\* their order, then the extra arguments the condition that caused the call
\* was registered with, in their order, and nothing else.
C12_DoArgumentsConcatenated ==
    (IsSimple /\ Dispatched) =>
        \A k \in 1..Len(last.calls) :
            /\ last.calls[k].method = "do"
            /\ last.calls[k].args =
                   <<last.name>> \o last.args
                   \o RegisteredArguments(last.calls[k].cond)

\* C12 witness: one dispatch of after_batch called do(after_batch, batch) for
\* a condition without extra arguments and do(after_batch, batch, x, y) for
\* one registered with the arguments [x, y]
C12_Witness ==
    /\ IsSimple /\ Dispatched
    /\ last.name = "after_batch"
    /\ Len(last.calls) = 2
    /\ last.calls[1].args = <<"after_batch", "batch">>
    /\ last.calls[2].args = <<"after_batch", "batch", "x", "y">>

\* ---- the condition list over time
\* C13: a call of add_condition makes the condition list one entry longer and
\* leaves the entries it had, in their order, in front of the new one; every
\* other step, a dispatch and the calls of do it makes included, leaves the
\* list as it was.
C13_ConditionsAppendOnly ==
    [][IF user' # user
       THEN /\ Len(conditions') = Len(conditions) + 1
            /\ SubSeq(conditions', 1, Len(conditions)) = conditions
            /\ conditions'[Len(conditions')].callback_name = user'[Len(user')][1]
       ELSE conditions' = conditions]_vars

\* C13 witness: a condition was added after those the constructor registered,
\* and a dispatch has called do
C13_Witness ==
    /\ IsSimple /\ Dispatched
    /\ Len(user) = 1
    /\ Len(conditions) >= 2
    /\ conditions[Len(conditions)].callback_name = user[1][1]
    /\ last.calls # <<>>

\* ---- a predicate that raises
\* the conditions of the dispatched name whose predicate raises
RaisingConditions ==
    {i \in 1..Len(conditions) :
        /\ conditions[i].callback_name = last.name
        /\ PredicateRaises(conditions[i].predicate, SeenLog(i))}

\* the first of them: the loop does not get past it
FirstRaising == CHOOSE r \in RaisingConditions : \A x \in RaisingConditions : r <= x

\* C14: a dispatch of a SimpleExtension ends in the predicate's exception
\* exactly when a condition of the dispatched name has a predicate that
\* raises; then do was called for the satisfied conditions before the first
\* such condition and for no condition after it, and what those calls did
\* stays: the finish flag FinishAfter set, the lines Printing printed.
C14_PredicateExceptionPropagates ==
    (IsSimple /\ Dispatched) =>
        /\ last.raised = IF RaisingConditions # {} THEN "Exception" ELSE "none"
        /\ RaisingConditions # {} =>
               /\ \A i \in 1..Len(conditions) :
                      FiredAt(i) <=> (i < FirstRaising /\ i \in Satisfied)
               /\ log = IF cls = "FinishAfter" /\ last.calls # <<>>
                        THEN [last.pre EXCEPT
                                  !.current_row.training_finish_requested = TRUE]
                        ELSE last.pre
               /\ cls = "Printing" => (last.out # <<>> <=> last.calls # <<>>)

\* C14 witness: a dispatch called do for a condition, then a predicate
\* raised, and a later condition of the same name whose predicate is true on
\* the log got no call of do
C14_Witness ==
    /\ IsSimple /\ Dispatched
    /\ last.raised = "Exception"
    /\ last.calls # <<>>
    /\ \E i \in 1..Len(conditions) :
        /\ i > FirstRaising
        /\ conditions[i].callback_name = last.name
        /\ PredicateHolds(conditions[i].predicate, log)
        /\ ~FiredAt(i)

\* ---- a subclass without do
\* C15 as stated: a subclass of SimpleExtension that does not implement do
\* can be constructed (the failure comes only when a dispatch calls do).
C15_MissingDoFailsAtInvocation ==
    AbstractMethods(cls) # {} => ctor_raised = "none"

\* C15 as amended: calling a subclass of SimpleExtension that does not
\* implement do raises TypeError whatever the keywords, so there is no
\* instance: no condition is ever registered on it and no dispatch is ever
\* made on it; the classes that implement do are constructed without error.
C15_MissingDoFailsAtConstruction ==
    /\ AbstractMethods(cls) # {} =>
           /\ ctor_raised = "TypeError"
           /\ conditions = <<>> /\ user = <<>>
           /\ ~Dispatched
           /\ \A name \in LifecycleNames : dispatched[name] = 0
    /\ AbstractMethods(cls) = {} => ctor_raised = "none"

\* C15 witness: the call SubclassWithoutDo(after_every_epoch=True) has raised
\* TypeError and the main loop's log has moved on
C15_Witness ==
    /\ cls = "SubclassWithoutDo"
    /\ kwargs.after_every_epoch = <<TRUE>>
    /\ ctor_raised = "TypeError"
    /\ log.status.epochs_done > 0

\* ---- the defaults of Printing
\* the keywords Printing.__init__ sets when they are absent
PrintingDefaults == {"before_first_epoch", "after_training", "after_every_epoch"}

\* the number of conditions the constructor registered
NConstructed == Len(conditions) - Len(user)

\* the calls of do the latest dispatch made for conditions of the constructor
ConstructedCalls ==
    Cardinality({k \in 1..Len(last.calls) : last.calls[k].cond <= NConstructed})

\* C16: a Printing has the condition of each of before_first_epoch,
\* after_training and after_every_epoch unless the caller passed False for
\* it; so a dispatch of before_epoch at epochs_done = 0, of after_epoch and of
\* after_training each calls do for it, and with an explicit False only that
\* one trigger is missing.  (A dispatch of after_epoch also calls do for the
\* condition of after_n_epochs when that one is satisfied.)
C16_PrintingDefaults ==
    cls = "Printing" =>
        /\ \A f \in PrintingDefaults : EffFlag(f) <=> kwargs[f] # <<FALSE>>
        /\ NConstructed =
               B(EffFlag("before_first_epoch")) + B(EffFlag("after_every_epoch"))
               + B(EffFlag("after_every_batch")) + B(EffFlag("after_training"))
               + B(kwargs.after_n_epochs \notin {<<>>, <<0>>})
               + B(kwargs.after_n_batches \notin {<<>>, <<0>>})
        /\ \A f \in PrintingDefaults :
               EffFlag(f) =>
                   /\ FlagPos(f) <= NConstructed
                   /\ conditions[FlagPos(f)].callback_name = FlagCallback(f)
                   /\ conditions[FlagPos(f)].predicate =
                          IF f = "before_first_epoch" THEN EpochsDoneEq(0)
                          ELSE AlwaysTrue
        /\ Dispatched =>
               /\ last.name = "before_epoch" =>
                      ConstructedCalls =
                          B(/\ kwargs.before_first_epoch # <<FALSE>>
                            /\ last.pre.status.epochs_done = 0)
               /\ last.name = "after_training" =>
                      ConstructedCalls = B(kwargs.after_training # <<FALSE>>)
               /\ last.name = "after_epoch" =>
                      ConstructedCalls =
                          B(kwargs.after_every_epoch # <<FALSE>>)
                          + B(/\ kwargs.after_n_epochs \notin {<<>>, <<0>>}
                              /\ last.pre.status.epochs_done =
                                     kwargs.after_n_epochs[1])

\* C16 witness: Printing(after_every_epoch=False) has the two other
\* conditions, and a dispatch of after_training called do once
C16_Witness ==
    /\ cls = "Printing" /\ Dispatched
    /\ kwargs = [NoKwargs EXCEPT !.after_every_epoch = <<FALSE>>]
    /\ NConstructed = 2
    /\ last.name = "after_training"
    /\ ConstructedCalls = 1
    /\ log.status.epochs_done > 0

\* ---- predicates and do interleaved
\* the loop of the latest dispatch reached condition i
Reached(i) == RaisingConditions = {} \/ i <= FirstRaising

\* C17: in a dispatch, a condition of the dispatched name whose predicate
\* reads the finish flag is satisfied if the flag was set when dispatch was
\* called or, for a FinishAfter, if do was called for a condition before it in
\* that same dispatch: its predicate is evaluated on the log as those calls
\* left it.  (The do of Printing does not change the log.)
C17_PredicateSeesEarlierDo ==
    (IsSimple /\ Dispatched) =>
        \A i \in 1..Len(conditions) :
            (/\ conditions[i].callback_name = last.name
             /\ conditions[i].predicate = FinishRequested
             /\ Reached(i))
            => (FiredAt(i) <=>
                   \/ last.pre.current_row.training_finish_requested
                   \/ /\ cls = "FinishAfter"
                      /\ \E j \in 1..(i - 1) : FiredAt(j))

\* C17 witness: a dispatch of a FinishAfter on a log whose finish flag was
\* not set called do for a condition and then for a later one whose predicate
\* reads the flag
C17_Witness ==
    /\ cls = "FinishAfter" /\ Returned
    /\ ~last.pre.current_row.training_finish_requested
    /\ Len(last.calls) = 2
    /\ conditions[last.calls[2].cond].predicate = FinishRequested

\* ---- SimpleExtension.dispatch in place of the base dispatch
\* C18: a dispatch of a SimpleExtension invokes no method but do (none of the
\* seven callbacks), raises no AttributeError whatever the name (only a
\* predicate's exception leaves it), and with no condition registered under
\* the dispatched name it invokes nothing, raises nothing, prints nothing and
\* leaves the log as it was.
C18_SimpleDispatchReplacesBase ==
    (IsSimple /\ Dispatched) =>
        /\ \A k \in 1..Len(last.calls) :
               /\ last.calls[k].method = "do"
               /\ last.calls[k].method \notin LifecycleNames
        /\ last.raised \in {"none", "Exception"}
        /\ last.raised = "Exception" => SomePredicateRaises
        /\ (\A i \in 1..Len(conditions) :
                conditions[i].callback_name # last.name)
           => /\ last.calls = <<>>
              /\ last.raised = "none"
              /\ last.out = <<>>
              /\ log = last.pre

\* C18 witness: an extension with conditions was dispatched a name that is no
\* method and that no condition has; the dispatch returned without a call
C18_Witness ==
    /\ IsSimple /\ Returned
    /\ conditions # <<>>
    /\ last.name = "not_a_callback"
    /\ \A i \in 1..Len(conditions) : conditions[i].callback_name # last.name
    /\ last.calls = <<>>

\* ---- a dispatch that satisfies no condition
\* no condition of the extension has the name `name` and a predicate true on
\* the log lg
NoneSatisfied(name, lg) ==
    \A i \in 1..Len(conditions) :
        ~(/\ conditions[i].callback_name = name
          /\ PredicateHolds(conditions[i].predicate, lg))

\* C19: a dispatch of a SimpleExtension on a log on which none of its
\* conditions is satisfied calls do for none, prints nothing and leaves the
\* log (the finish flag included) and the condition list as they were; a
\* FinishAfter without conditions leaves the log as it was on every dispatch;
\* and no dispatch of a FinishAfter ends with the finish flag False when it
\* began with the flag True.
C19_NoMatchNoEffect ==
    [][(IsSimple /\ last'.op = "dispatch") =>
           /\ last'.pre = log
           /\ NoneSatisfied(last'.name, log) =>
                  /\ last'.calls = <<>>
                  /\ last'.out = <<>>
                  /\ log' = log
                  /\ conditions' = conditions
           /\ (cls = "FinishAfter" /\ conditions = <<>>) => log' = log
           /\ (/\ cls = "FinishAfter"
               /\ log.current_row.training_finish_requested)
              => log'.current_row.training_finish_requested]_vars

\* C19 witness: a FinishAfter with a condition of the dispatched name whose
\* predicate was false; the dispatch called nothing and the finish flag, set
\* before, is still set
C19_Witness ==
    /\ cls = "FinishAfter" /\ Returned
    /\ \E i \in 1..Len(conditions) : conditions[i].callback_name = last.name
    /\ NoneSatisfied(last.name, last.pre)
    /\ last.calls = <<>>
    /\ last.pre.current_row.training_finish_requested
    /\ log = last.pre

====
